---- MODULE Spec2Model ----
(***************************************************************************)
(* PCGRL environment (envs/pcgrl_env.py): the constructor, reset_env and   *)
(* step_env of PCGRLEnv as a state machine over one environment object and *)
(* one episode state.  The representation, problem and flood modules that  *)
(* pcgrl_env.py imports are modelled from their documented contracts.      *)
(***************************************************************************)
EXTENDS Integers, Sequences, FiniteSets, TLC

VARIABLES env_params, pc, self, env_state, ret, trace, call

vars == <<env_params, pc, self, env_state, ret, trace, call>>

(* ---- bounds of the model ---- *)
MaxSide == 2
MaxArea == 4
MaxBoardScans == 1
TurtleBoardScans == 1
MaxOverrun == 1
MaxFloodSide == 3
MaxFloodArea == 9
MaxFreezies == 2
MaxPop == 2
MaxEnvs == 5
IndexBits == 4

(* ---- enumerations ---- *)
BINARY == 0
DUNEGON == 1
NARROW == 0
TURTLE == 1
WIDE == 2
NCA == 3

BORDER == 0
EMPTY == 1
WALL == 2

ProbKinds == {BINARY, DUNEGON, 2}
RepKinds == {NARROW, TURTLE, WIDE, NCA, 4}
tile_enum == {BORDER, EMPTY, WALL}
PaintTiles == {EMPTY, WALL}

n_agents_default == 1
n_freezies_default == 0

(* ---- map geometry ---- *)
Shapes ==
    {s \in (1 .. MaxSide) \X (1 .. MaxSide) : s[1] * s[2] <= MaxArea}
area(shape) == shape[1] * shape[2]
Cells(shape) == (0 .. (shape[1] - 1)) \X (0 .. (shape[2] - 1))
Maps(shape) == [Cells(shape) -> PaintTiles]
Masks(shape) == [Cells(shape) -> BOOLEAN]
NoPos == <<-1, -1>>

(* the maps the flood engine is exercised on by itself *)
FloodShapes ==
    {s \in (1 .. MaxFloodSide) \X (1 .. MaxFloodSide) : s[1] * s[2] <= MaxFloodArea}

Min(S) == CHOOSE x \in S : \A y \in S : x <= y

(* PCGRLEnvParams: the configurations a caller may pass to the constructor *)
ParamsSet ==
    [problem : ProbKinds,
     representation : RepKinds,
     map_shape : Shapes,
     act_shape : {<<1, 1>>},
     rf_shape : {<<1, 1>>},
     static_tile_prob : {0, 50},
     n_freezies : {n_freezies_default},
     n_agents : {n_agents_default},
     max_board_scans : 1 .. MaxBoardScans]

(* configurations with a zero-length map side, action or observation window *)
ConstructParamsSet ==
    [problem : ProbKinds,
     representation : RepKinds,
     map_shape : (0 .. MaxSide) \X (0 .. MaxSide),
     act_shape : {<<0, 1>>, <<1, 1>>},
     rf_shape : {<<0, 0>>, <<1, 1>>},
     static_tile_prob : {0},
     n_freezies : {n_freezies_default},
     n_agents : {n_agents_default},
     max_board_scans : {1}]

(* A PRNG key, represented by the draws the generators derive from it:    *)
(* the categorical tile draw of gen_init_map, the uniform draws (percent) *)
(* that bernoulli thresholds, and the draw the representation reset uses. *)
Keys(shape) ==
    [tiles : Maps(shape),
     u : [Cells(shape) -> {25, 75}],
     pos : Cells(shape),
     frz : {<<>>}]

(* ---- flood engine ---- *)
UNREACHABLE == -1
START == <<0, 0>>
GOAL(shape) == <<shape[1] - 1, shape[2] - 1>>
max_passes_half(env_map) == Cardinality(DOMAIN env_map) \div 2

max_passes(env_map) == Cardinality(DOMAIN env_map)

Nbrs(cells, c) ==
    {d \in cells :
        \/ (d[1] = c[1] /\ (d[2] = c[2] + 1 \/ d[2] = c[2] - 1))
        \/ (d[2] = c[2] /\ (d[1] = c[1] + 1 \/ d[1] = c[1] - 1))}

Passable(env_map, c) == env_map[c] = EMPTY

flood_init(env_map, start) ==
    [c \in DOMAIN env_map |->
        IF c = start /\ Passable(env_map, c) THEN 0 ELSE UNREACHABLE]

flood_pass_through_walls(env_map, dist) ==
    [c \in DOMAIN env_map |->
        LET cand == {dist[n] + 1 :
                        n \in {m \in Nbrs(DOMAIN env_map, c) : dist[m] # UNREACHABLE}}
                    \cup ({dist[c]} \ {UNREACHABLE})
        IN  IF cand = {} THEN UNREACHABLE ELSE Min(cand)]

flood_pass(env_map, dist) ==
    [c \in DOMAIN env_map |->
        IF ~Passable(env_map, c) THEN UNREACHABLE
        ELSE LET cand == {dist[n] + 1 :
                             n \in {m \in Nbrs(DOMAIN env_map, c) : dist[m] # UNREACHABLE}}
                         \cup ({dist[c]} \ {UNREACHABLE})
             IN  IF cand = {} THEN UNREACHABLE ELSE Min(cand)]

RECURSIVE flood_iter(_, _, _)
flood_iter(env_map, dist, k) ==
    IF k = 0 THEN dist
    ELSE LET nxt == flood_pass(env_map, dist)
         IN  IF nxt = dist THEN dist ELSE flood_iter(env_map, nxt, k - 1)

calc_flood(env_map, start) ==
    flood_iter(env_map, flood_init(env_map, start), max_passes(env_map))

(* ---- path extraction ---- *)
PATH_SENTINEL == <<-1, -1>>
max_path_len(shape) == area(shape)

(* the neighbours of c in scan order: up, down, left, right *)
neighbor_scan_reversed(c) ==
    <<<<c[1], c[2] + 1>>, <<c[1], c[2] - 1>>, <<c[1] + 1, c[2]>>, <<c[1] - 1, c[2]>>>>

neighbor_scan(c) ==
    <<<<c[1] - 1, c[2]>>, <<c[1] + 1, c[2]>>, <<c[1], c[2] - 1>>, <<c[1], c[2] + 1>>>>

(* the first neighbour in scan order whose distance is one less *)
step_back(flood_count, c) ==
    LET scan == neighbor_scan(c)
        hits == {i \in 1 .. 4 :
                    /\ scan[i] \in DOMAIN flood_count
                    /\ flood_count[scan[i]] = flood_count[c] - 1}
    IN  IF hits = {} THEN PATH_SENTINEL ELSE scan[Min(hits)]

(* the walk from c back to the start, at most k cells *)
RECURSIVE walk_back(_, _, _)
walk_back(flood_count, c, k) ==
    IF k = 0 \/ c = PATH_SENTINEL \/ flood_count[c] = UNREACHABLE THEN <<>>
    ELSE IF flood_count[c] = 0 THEN <<c>>
    ELSE <<c>> \o walk_back(flood_count, step_back(flood_count, c), k - 1)

extract_path_goal_first(flood_count, goal, path_len) ==
    LET walk == walk_back(flood_count, goal, path_len)
    IN  [i \in 1 .. path_len |->
            IF i <= Len(walk) THEN walk[i] ELSE PATH_SENTINEL]

(* the path buffer: the walk in start-to-goal order, padded with the sentinel *)
extract_path(flood_count, goal, path_len) ==
    LET walk == walk_back(flood_count, goal, path_len)
    IN  [i \in 1 .. path_len |->
            IF i <= Len(walk) THEN walk[Len(walk) + 1 - i] ELSE PATH_SENTINEL]

(* ---- problem module (binary problem) ---- *)
NoProbState == [stats |-> -1, flood_count |-> <<>>]

path_length(flood_count, goal) ==
    IF flood_count[goal] = UNREACHABLE THEN 0 ELSE flood_count[goal] + 1

get_stats_reward_is_stat(shape, env_map, prev_state) ==
    LET flood_count == calc_flood(env_map, START)
        stat == path_length(flood_count, GOAL(shape))
    IN  [reward |-> stat,
         prob_state |-> [stats |-> stat, flood_count |-> flood_count]]

(* get_stats(env_map, prev_state) of the problem built for map_shape;      *)
(* prev_state = NoProbState stands for None                                *)
get_stats(shape, env_map, prev_state) ==
    LET flood_count == calc_flood(env_map, START)
        stat == path_length(flood_count, GOAL(shape))
    IN  [reward |-> IF prev_state = NoProbState THEN 0 ELSE stat - prev_state.stats,
         prob_state |-> [stats |-> stat, flood_count |-> flood_count]]

(* ---- representations ---- *)
NOOP == 0
NoRepState == [pos |-> NoPos, n_scans |-> 0]

ValidReps == {NARROW, TURTLE, WIDE, NCA}

(* sub-actions of one agent, by representation kind *)
TurtleMoves == {<<-1, 0>>, <<1, 0>>, <<0, -1>>, <<0, 1>>}
RepActions(kind, shape) ==
    CASE kind = NARROW -> {NOOP} \cup PaintTiles
      [] kind = TURTLE -> [move : TurtleMoves] \cup [paint : PaintTiles]
      [] kind = WIDE -> [pos : Cells(shape), tile : PaintTiles]
      [] OTHER -> Maps(shape)

rep_max_steps(shape, max_board_scans) == area(shape) * max_board_scans

(* the action array of one call: one sub-action per agent *)
Actions(kind, shape) == {<<a>> : a \in RepActions(kind, shape)}

rep_reset(kind, frz_map, rng) ==
    CASE kind = NARROW -> [pos |-> <<0, 0>>, n_scans |-> 0]
      [] kind = TURTLE -> [pos |-> rng.pos, n_scans |-> 0]
      [] OTHER -> NoRepState

next_raster_column_major(shape, pos) ==
    IF pos[1] + 1 < shape[1] THEN <<pos[1] + 1, pos[2]>>
    ELSE IF pos[2] + 1 < shape[2] THEN <<0, pos[2] + 1>>
    ELSE <<0, 0>>

next_raster(shape, pos) ==
    IF pos[2] + 1 < shape[2] THEN <<pos[1], pos[2] + 1>>
    ELSE IF pos[1] + 1 < shape[1] THEN <<pos[1] + 1, 0>>
    ELSE <<0, 0>>

clamp(x, lo, hi) == IF x < lo THEN lo ELSE IF x > hi THEN hi ELSE x

narrow_step(shape, env_map, action, rep_state, step_idx) ==
    LET new_map == IF action = NOOP THEN env_map
                   ELSE [env_map EXCEPT ![rep_state.pos] = action]
        new_pos == next_raster(shape, rep_state.pos)
    IN  [env_map |-> new_map,
         map_changed |-> new_map # env_map,
         rep_state |-> [pos |-> new_pos,
                        n_scans |-> IF new_pos = <<0, 0>> THEN rep_state.n_scans + 1
                                    ELSE rep_state.n_scans]]

turtle_step(shape, env_map, action, rep_state, step_idx) ==
    IF "move" \in DOMAIN action
    THEN [env_map |-> env_map,
          map_changed |-> FALSE,
          rep_state |-> [rep_state EXCEPT
              !.pos = <<clamp(rep_state.pos[1] + action.move[1], 0, shape[1] - 1),
                        clamp(rep_state.pos[2] + action.move[2], 0, shape[2] - 1)>>]]
    ELSE LET new_map == [env_map EXCEPT ![rep_state.pos] = action.paint]
         IN  [env_map |-> new_map,
              map_changed |-> new_map # env_map,
              rep_state |-> rep_state]

wide_step(shape, env_map, action, rep_state, step_idx) ==
    LET new_map == [env_map EXCEPT ![action.pos] = action.tile]
    IN  [env_map |-> new_map,
         map_changed |-> new_map # env_map,
         rep_state |-> rep_state]

nca_step(shape, env_map, action, rep_state, step_idx) ==
    [env_map |-> action,
     map_changed |-> action # env_map,
     rep_state |-> rep_state]

rep_step(kind, shape, env_map, action, rep_state, step_idx) ==
    CASE kind = NARROW -> narrow_step(shape, env_map, action, rep_state, step_idx)
      [] kind = TURTLE -> turtle_step(shape, env_map, action, rep_state, step_idx)
      [] kind = WIDE -> wide_step(shape, env_map, action, rep_state, step_idx)
      [] OTHER -> nca_step(shape, env_map, action, rep_state, step_idx)

get_obs(env_map, static_map, rep_state) ==
    [env_map |-> env_map, static_map |-> static_map, pos |-> rep_state.pos]

(* ---- environment orchestrator ---- *)
NoMap == <<>>
NoMask == <<>>

NoEnv ==
    [prob |-> -1, rep |-> -1, max_steps |-> 0, map_shape |-> <<0, 0>>,
     static_tile_prob |-> 0, n_freezies |-> 0, n_agents |-> 0]

(* PCGRLEnvState, with the defaults of the dataclass *)
PCGRLEnvState(env_map, static_map, rep_state, prob_state, step_idx, reward, done) ==
    [env_map |-> env_map, static_map |-> static_map, rep_state |-> rep_state,
     prob_state |-> prob_state, step_idx |-> step_idx, reward |-> reward,
     done |-> done]

NoState == PCGRLEnvState(NoMap, NoMask, NoRepState, NoProbState, 0, 0, FALSE)

NoRet ==
    [op |-> "none", obs |-> get_obs(NoMap, NoMask, NoRepState),
     reward |-> 0, done |-> FALSE, discount |-> 1]

NoTrace ==
    [map_changed |-> FALSE, stats_called |-> FALSE, restored |-> FALSE,
     same_map |-> FALSE]

(* no call of a pure function of the engine is on record *)
NoCall == [op |-> "none"]

gen_init_map(rng, map_shape) ==
    [c \in Cells(map_shape) |-> rng.tiles[c]]

bernoulli_extra_row(rng, p, map_shape) ==
    [c \in Cells(<<map_shape[1] + 1, map_shape[2]>>) |->
        c \in DOMAIN rng.u /\ rng.u[c] < p]

(* gen_static_tiles, lines 66-68 *)
bernoulli(rng, p, map_shape) ==
    [c \in Cells(map_shape) |-> rng.u[c] < p]

(* gen_freezie, lines 93-99: frz holds the two thresholded wave profiles,  *)
(* r_tri along the columns and c_tri along the rows                        *)
gen_freezie(frz, map_shape) ==
    [c \in Cells(map_shape) |-> (1 * frz.r_tri[c[2]] * frz.c_tri[c[1]]) # 0]

RECURSIVE rects_sum(_, _, _, _)
rects_sum(frz_keys, n, map_shape, c) ==
    IF n = 0 THEN 0
    ELSE (IF gen_freezie(frz_keys[n], map_shape)[c] THEN 1 ELSE 0)
         + rects_sum(frz_keys, n - 1, map_shape, c)

(* jnp.stack((r_tri, c_tri)), line 88, needs both profiles of one length; *)
(* when it raises, no mask is produced                                     *)
stackable(map_shape) == map_shape[1] = map_shape[2]

gen_static_tiles_first_only(rng, static_tile_prob, n_freezies, map_shape) ==
    LET static_tiles == bernoulli(rng, static_tile_prob, map_shape)
    IN  IF n_freezies > 0
        THEN IF ~stackable(map_shape) THEN NoMask
             ELSE [c \in Cells(map_shape) |->
                      (clamp(rects_sum(rng.frz, 1, map_shape, c), 0, 1) # 0)
                      \/ static_tiles[c]]
        ELSE static_tiles

gen_static_tiles(rng, static_tile_prob, n_freezies, map_shape) ==
    LET static_tiles == bernoulli(rng, static_tile_prob, map_shape)
    IN  IF n_freezies > 0
        THEN IF ~stackable(map_shape) THEN NoMask
             ELSE [c \in Cells(map_shape) |->
                      (clamp(rects_sum(rng.frz, n_freezies, map_shape, c), 0, 1) # 0)
                      \/ static_tiles[c]]
        ELSE static_tiles

(* PCGRLEnv.__init__: the outcome of the constructor for given parameters *)
construct_default_rep(params) ==
    IF params.problem # BINARY
    THEN [ok |-> FALSE, self |-> NoEnv]
    ELSE LET kind == IF params.representation \in ValidReps
                     THEN params.representation ELSE NARROW
         IN  [ok |-> TRUE,
              self |-> [prob |-> BINARY,
                        rep |-> kind,
                        max_steps |-> rep_max_steps(
                            params.map_shape,
                            IF kind = TURTLE /\ params.n_agents <= 1
                            THEN TurtleBoardScans ELSE params.max_board_scans),
                        map_shape |-> params.map_shape,
                        static_tile_prob |-> params.static_tile_prob,
                        n_freezies |-> params.n_freezies,
                        n_agents |-> params.n_agents]]

construct(params) ==
    IF params.problem # BINARY
    THEN [ok |-> FALSE, self |-> NoEnv]
    ELSE IF params.representation \notin ValidReps
    THEN [ok |-> FALSE, self |-> NoEnv]
    ELSE [ok |-> TRUE,
          self |-> [prob |-> BINARY,
                    rep |-> params.representation,
                    max_steps |-> rep_max_steps(
                        params.map_shape,
                        IF params.representation = TURTLE /\ params.n_agents <= 1
                        THEN TurtleBoardScans ELSE params.max_board_scans),
                    map_shape |-> params.map_shape,
                    static_tile_prob |-> params.static_tile_prob,
                    n_freezies |-> params.n_freezies,
                    n_agents |-> params.n_agents]]

is_terminal_full_budget(env, state) == state.step_idx >= env.max_steps

is_terminal(env, state) == state.step_idx >= env.max_steps - 1

(* gymnax Environment.discount *)
discount(env, state) == IF is_terminal(env, state) THEN 0 ELSE 1

apply_static_swapped(static_map, old_map, new_map) ==
    [c \in DOMAIN old_map |-> IF static_map[c] THEN new_map[c] ELSE old_map[c]]

(* step_env, lines 220-222: restore the frozen tiles *)
apply_static(static_map, old_map, new_map) ==
    [c \in DOMAIN old_map |-> IF static_map[c] THEN old_map[c] ELSE new_map[c]]

stats_cond_always(env, map_changed, env_map, prob_state) ==
    LET r == get_stats(env.map_shape, env_map, prob_state)
    IN  [reward |-> r.reward, prob_state |-> r.prob_state, called |-> TRUE]

stats_cond_stat_as_reward(env, map_changed, env_map, prob_state) ==
    IF map_changed
    THEN LET r == get_stats(env.map_shape, env_map, prob_state)
         IN  [reward |-> r.reward, prob_state |-> r.prob_state, called |-> TRUE]
    ELSE [reward |-> prob_state.stats, prob_state |-> prob_state, called |-> FALSE]

stats_cond_keep_old_state(env, map_changed, env_map, prob_state) ==
    IF map_changed
    THEN LET r == get_stats(env.map_shape, env_map, prob_state)
         IN  [reward |-> r.reward, prob_state |-> prob_state, called |-> TRUE]
    ELSE [reward |-> 0, prob_state |-> prob_state, called |-> FALSE]

(* step_env, lines 223-228: recompute the stats or carry them over *)
stats_cond(env, map_changed, env_map, prob_state) ==
    IF map_changed
    THEN LET r == get_stats(env.map_shape, env_map, prob_state)
         IN  [reward |-> r.reward, prob_state |-> r.prob_state, called |-> TRUE]
    ELSE [reward |-> 0, prob_state |-> prob_state, called |-> FALSE]

step_done_after_increment(env, state) ==
    is_terminal(env, [state EXCEPT !.step_idx = @ + 1])

(* step_env, line 232: done is taken on the input state *)
step_done(env, state) == is_terminal(env, state)

next_step_idx_stuck(step_idx) == step_idx

next_step_idx_frozen_when_done(step_idx) ==
    IF step_idx >= 2 THEN step_idx ELSE step_idx + 1

(* step_env, line 233 *)
next_step_idx(step_idx) == step_idx + 1

step_new_state_default_reward(old, env_map, rep_state, done, reward, prob_state, step_idx) ==
    PCGRLEnvState(env_map, old.static_map, rep_state, prob_state, step_idx,
                  0, done)

step_new_state_refreeze(old, env_map, rep_state, done, reward, prob_state, step_idx) ==
    PCGRLEnvState(env_map,
                  [c \in DOMAIN env_map |->
                      old.static_map[c] \/ env_map[c] # old.env_map[c]],
                  rep_state, prob_state, step_idx, reward, done)

(* step_env, lines 234-237 *)
step_new_state(old, env_map, rep_state, done, reward, prob_state, step_idx) ==
    PCGRLEnvState(env_map, old.static_map, rep_state, prob_state, step_idx,
                  reward, done)

step_obs_stale_cursor(old, env_map, rep_state) ==
    get_obs(env_map, old.static_map, old.rep_state)

(* step_env, lines 229-231 *)
step_obs(old, env_map, rep_state) ==
    get_obs(env_map, old.static_map, rep_state)

reset_new_state_no_stats(env_map, frz_map, rep_state, prob_state) ==
    PCGRLEnvState(env_map, frz_map, rep_state, NoProbState, 0, 0, FALSE)

(* reset_env, lines 206-208; reward keeps the dataclass default *)
reset_new_state(env_map, frz_map, rep_state, prob_state) ==
    PCGRLEnvState(env_map, frz_map, rep_state, prob_state, 0, 0, FALSE)

(* ---- actions ---- *)
Init ==
    /\ env_params \in ParamsSet
    /\ pc = "new"
    /\ self = NoEnv
    /\ env_state = NoState
    /\ ret = NoRet
    /\ trace = NoTrace
    /\ call = NoCall

PCGRLEnv_init ==
    /\ pc = "new"
    /\ LET c == construct(env_params)
       IN  /\ pc' = IF c.ok THEN "ready" ELSE "failed"
           /\ self' = c.self
    /\ UNCHANGED <<env_params, env_state, ret, trace, call>>

(* reset_env reads nothing of the previous episode, so every state it can   *)
(* return is the one it returns on the freshly constructed environment.     *)
reset_env(rng) ==
    /\ pc = "ready"
    /\ LET env_map == gen_init_map(rng, self.map_shape)
           frz_map == gen_static_tiles(rng, self.static_tile_prob, self.n_freezies,
                                       self.map_shape)
           rep_state0 == rep_reset(self.rep, frz_map, rng)
           obs == get_obs(env_map, frz_map, rep_state0)
           st == get_stats(self.map_shape, env_map, NoProbState)
           rep_state == rep_reset(self.rep, frz_map, rng)
           new_state == reset_new_state(env_map, frz_map, rep_state, st.prob_state)
       IN  /\ env_state' = new_state
           /\ ret' = [op |-> "reset", obs |-> obs, reward |-> 0, done |-> FALSE,
                      discount |-> 1]
           /\ trace' = [NoTrace EXCEPT !.stats_called = TRUE]
    /\ pc' = "running"
    /\ UNCHANGED <<env_params, self, call>>

(* The locals of step_env are bound once each, in the order the code       *)
(* computes them.                                                          *)
step_env(action) ==
    /\ pc = "running"
    /\ env_state.step_idx < self.max_steps + MaxOverrun
    /\ LET act == IF self.n_agents = 1 THEN action[1] ELSE action
       IN
       \E r \in {rep_step(self.rep, self.map_shape, env_state.env_map, act,
                          env_state.rep_state, env_state.step_idx)} :
       \E env_map \in {apply_static(env_state.static_map, env_state.env_map,
                                    r.env_map)} :
       \E sp \in {stats_cond(self, r.map_changed, env_map, env_state.prob_state)} :
       \E obs \in {step_obs(env_state, env_map, r.rep_state)} :
       \E done \in {step_done(self, env_state)} :
       \E step_idx \in {next_step_idx(env_state.step_idx)} :
       \E new_state \in {step_new_state(env_state, env_map, r.rep_state, done,
                                        sp.reward, sp.prob_state, step_idx)} :
           /\ env_state' = new_state
           /\ ret' = [op |-> "step", obs |-> obs, reward |-> sp.reward,
                      done |-> done, discount |-> discount(self, new_state)]
           /\ trace' = [map_changed |-> r.map_changed,
                        stats_called |-> sp.called,
                        restored |-> env_map # r.env_map,
                        same_map |-> env_map = env_state.env_map]
    /\ UNCHANGED <<env_params, pc, self, call>>

Next ==
    \/ PCGRLEnv_init
    \/ pc = "ready" /\ \E rng \in Keys(self.map_shape) : reset_env(rng)
    \/ pc = "running" /\ \E action \in Actions(self.rep, self.map_shape) : step_env(action)

Spec == Init /\ [][Next]_vars

(* the caller keeps stepping the episode *)
step_any ==
    pc = "running" /\ \E action \in Actions(self.rep, self.map_shape) : step_env(action)

(* whether an episode ends depends on the step counter and the budget,    *)
(* not on the map: the fair runs are taken on the maps of at most two      *)
(* cells                                                                   *)
LiveShapes == {<<1, 1>>, <<1, 2>>, <<2, 1>>}

InitLive == Init /\ env_params.map_shape \in LiveShapes

SpecLive == InitLive /\ [][Next]_vars /\ WF_vars(step_any)

(* ---- construction alone, over configurations that include degenerate ones ---- *)
InitConstruct ==
    /\ env_params \in ConstructParamsSet
    /\ pc = "new"
    /\ self = NoEnv
    /\ env_state = NoState
    /\ ret = NoRet
    /\ trace = NoTrace
    /\ call = NoCall

SpecConstruct == InitConstruct /\ [][PCGRLEnv_init]_vars

(* ---- the flood engine alone, on every map, start and goal ---- *)
InitFlood ==
    /\ \E sh \in FloodShapes : \E m \in Maps(sh) :
       \E a \in Cells(sh) : \E b \in Cells(sh) :
           call = [op |-> "input", shape |-> sh, env_map |-> m, start |-> a, goal |-> b]
    /\ env_params \in {p \in ParamsSet :
           /\ p.problem = BINARY /\ p.representation = NARROW
           /\ p.map_shape = <<1, 1>> /\ p.static_tile_prob = 0
           /\ p.max_board_scans = 1}
    /\ pc = "new"
    /\ self = NoEnv
    /\ env_state = NoState
    /\ ret = NoRet
    /\ trace = NoTrace

(* one call of the engine: the distance field, then the path buffer *)
flood_call ==
    /\ call.op = "input"
    /\ \E flood_count \in {calc_flood(call.env_map, call.start)} :
           call' = [op |-> "flood", shape |-> call.shape, env_map |-> call.env_map,
                    start |-> call.start, goal |-> call.goal,
                    flood_count |-> flood_count,
                    path |-> extract_path(flood_count, call.goal,
                                          max_path_len(call.shape))]
    /\ UNCHANGED <<env_params, pc, self, env_state, ret, trace>>

SpecFlood == InitFlood /\ [][flood_call]_vars

(* ---- gen_static_tiles alone, with frozen regions ---- *)
(* the thresholded wave profiles of one freezie: r_tri has one entry per   *)
(* column, c_tri one per row                                               *)
FreezieKeys(shape) ==
    [r_tri : [0 .. (shape[2] - 1) -> {0, 1}],
     c_tri : [0 .. (shape[1] - 1) -> {0, 1}]]

InitStatic ==
    /\ \E sh \in Shapes : \E p \in {0, 50} : \E n \in 0 .. MaxFreezies :
       \E u \in [Cells(sh) -> {25, 75}] : \E frz \in [1 .. n -> FreezieKeys(sh)] :
           call = [op |-> "input", map_shape |-> sh, static_tile_prob |-> p,
                   n_freezies |-> n, rng |-> [u |-> u, frz |-> frz]]
    /\ env_params \in {p \in ParamsSet :
           /\ p.problem = BINARY /\ p.representation = NARROW
           /\ p.map_shape = <<1, 1>> /\ p.static_tile_prob = 0
           /\ p.max_board_scans = 1}
    /\ pc = "new"
    /\ self = NoEnv
    /\ env_state = NoState
    /\ ret = NoRet
    /\ trace = NoTrace

(* gen_freezie reads rect[1] (line 78): on a one-row map the index is out  *)
(* of range, which raises or is clamped depending on the array library,    *)
(* so both outcomes are possible                                           *)
static_outcomes(rng, static_tile_prob, n_freezies, map_shape) ==
    {gen_static_tiles(rng, static_tile_prob, n_freezies, map_shape)}
    \cup (IF n_freezies > 0 /\ map_shape[1] < 2 THEN {NoMask} ELSE {})

static_call ==
    /\ call.op = "input"
    /\ \E out \in static_outcomes(call.rng, call.static_tile_prob,
                                   call.n_freezies, call.map_shape) :
           call' = [op |-> "static", map_shape |-> call.map_shape,
                    static_tile_prob |-> call.static_tile_prob,
                    n_freezies |-> call.n_freezies, rng |-> call.rng,
                    raised |-> (out = NoMask), static_tiles |-> out]
    /\ UNCHANGED <<env_params, pc, self, env_state, ret, trace>>

SpecStatic == InitStatic /\ [][static_call]_vars

(* ---- evo_accel.py: one generation of the frozen-map search ---- *)
(* the frozen maps of the population are masks of one shape *)
EvoShape == <<1, 1>>
FitValues == {0, 1}

(* mutate_frz_map: flip the cells the Bernoulli draw mut_tiles selects *)
mutate_frz_map(mut_tiles, frz_map) ==
    [c \in DOMAIN frz_map |-> frz_map[c] # mut_tiles[c]]

(* apply_evo, lines 51-54: the first evo_pop_size parents, then their mutants *)
evo_candidates(frz_maps, mut_tiles, evo_pop_size) ==
    [i \in 1 .. (2 * evo_pop_size) |->
        IF i <= evo_pop_size THEN frz_maps[i]
        ELSE mutate_frz_map(mut_tiles[i - evo_pop_size], frz_maps[i - evo_pop_size])]

(* fits.reshape((-1, 2 * evo_pop_size)) needs n_envs to be a multiple *)
reshapable(n_envs, evo_pop_size) == n_envs % (2 * evo_pop_size) = 0

RECURSIVE column_sum(_, _, _, _)
column_sum(fits, j, width, rows) ==
    IF rows = 0 THEN 0
    ELSE fits[(rows - 1) * width + j] + column_sum(fits, j, width, rows - 1)

(* apply_evo, line 128: the mean over the copies of each candidate; every  *)
(* candidate has the same number of copies, and the mean is kept multiplied *)
(* by that number                                                          *)
mean_fits(fits, n_envs, evo_pop_size) ==
    [j \in 1 .. (2 * evo_pop_size) |->
        column_sum(fits, j, 2 * evo_pop_size, n_envs \div (2 * evo_pop_size))]

(* the index sequences of length n over 1 .. m without repetition *)
Arrangements(m, n) ==
    {q \in [1 .. n -> 1 .. m] : \A i, j \in 1 .. n : i # j => q[i] # q[j]}

(* argpartition(a, kth)[:kth]: the entry placed at position kth is no      *)
(* smaller than those before it and no larger than those after it; the     *)
(* order inside the two parts is not specified                             *)
argpartition_head_ascending_fits(fits, kth) ==
    {q \in Arrangements(Len(fits), kth) :
        \E pivot \in (1 .. Len(fits)) \ {q[i] : i \in 1 .. kth} :
            /\ \A i \in 1 .. kth : fits[q[i]] <= fits[pivot]
            /\ \A t \in (1 .. Len(fits)) \ {q[i] : i \in 1 .. kth} :
                   fits[pivot] <= fits[t]}

(* apply_evo, line 131, on the negated fitnesses *)
argpartition_head(fits, kth) ==
    {q \in Arrangements(Len(fits), kth) :
        \E pivot \in (1 .. Len(fits)) \ {q[i] : i \in 1 .. kth} :
            /\ \A i \in 1 .. kth : (0 - fits[q[i]]) <= (0 - fits[pivot])
            /\ \A t \in (1 .. Len(fits)) \ {q[i] : i \in 1 .. kth} :
                   (0 - fits[pivot]) <= (0 - fits[t])}

(* the configuration, the population, the mutation draws and the fitness   *)
(* the evaluation rollouts report for each of the n_envs environments      *)
InitEvo ==
    /\ \E evo_pop_size \in 1 .. MaxPop : \E n_envs \in 1 .. MaxEnvs :
       \E extra \in {0, 1} :
       \E frz_maps \in [1 .. (evo_pop_size + extra) -> Masks(EvoShape)] :
       \E mut_tiles \in [1 .. evo_pop_size -> Masks(EvoShape)] :
       \E fits \in IF reshapable(n_envs, evo_pop_size)
                   THEN [1 .. n_envs -> FitValues]
                   ELSE {[e \in 1 .. n_envs |-> 0]} :
           call = [op |-> "input", evo_pop_size |-> evo_pop_size, n_envs |-> n_envs,
                   frz_maps |-> frz_maps, mut_tiles |-> mut_tiles, fits |-> fits]
    /\ env_params \in {p \in ParamsSet :
           /\ p.problem = BINARY /\ p.representation = NARROW
           /\ p.map_shape = <<1, 1>> /\ p.static_tile_prob = 0
           /\ p.max_board_scans = 1}
    /\ pc = "new"
    /\ self = NoEnv
    /\ env_state = NoState
    /\ ret = NoRet
    /\ trace = NoTrace

apply_evo ==
    /\ call.op = "input"
    /\ \E cands \in {evo_candidates(call.frz_maps, call.mut_tiles, call.evo_pop_size)} :
       IF ~reshapable(call.n_envs, call.evo_pop_size)
       THEN call' = [op |-> "evo", raised |-> TRUE, input |-> call]
       ELSE \E fits \in {mean_fits(call.fits, call.n_envs, call.evo_pop_size)} :
            \E top_indices \in argpartition_head(fits, call.evo_pop_size) :
                call' = [op |-> "evo", raised |-> FALSE, input |-> call,
                         fits |-> fits, top_indices |-> top_indices,
                         top_fitness |-> [i \in 1 .. call.evo_pop_size |->
                                             fits[top_indices[i]]],
                         frz_map |-> [i \in 1 .. call.evo_pop_size |->
                                         cands[top_indices[i]]]]
    /\ UNCHANGED <<env_params, pc, self, env_state, ret, trace>>

SpecEvo == InitEvo /\ [][apply_evo]_vars

(* ---- render: the path loop of render_map ---- *)
(* render, lines 255-257: the goal is the bottom-right cell of the field *)
get_path_coords(flood_count, path_len) ==
    extract_path(flood_count,
                 CHOOSE g \in DOMAIN flood_count :
                     \A d \in DOMAIN flood_count : d[1] <= g[1] /\ d[2] <= g[2],
                 path_len)

(* the loop counter is a fixed-width signed integer *)
wrap_index(i) ==
    IF i >= 2 ^ (IndexBits - 1) THEN i - 2 ^ IndexBits ELSE i

(* path_coords[i] with a traced index: a negative index counts from the    *)
(* end, and an index outside the buffer is clamped into it                 *)
read_path(path_coords, i) ==
    path_coords[clamp(IF i < 0 THEN i + Len(path_coords) ELSE i,
                      0, Len(path_coords) - 1) + 1]

(* cond, lines 311-313: both coordinates differ from the sentinel's *)
path_cond(path_coords, i) ==
    LET yx == read_path(path_coords, i)
    IN  yx[1] # PATH_SENTINEL[1] /\ yx[2] # PATH_SENTINEL[2]

InitRender ==
    /\ \E sh \in Shapes : \E m \in Maps(sh) :
           call = [op |-> "input", map_shape |-> sh, env_map |-> m]
    /\ env_params \in {p \in ParamsSet :
           /\ p.problem = BINARY /\ p.representation = NARROW
           /\ p.map_shape = <<1, 1>> /\ p.static_tile_prob = 0
           /\ p.max_board_scans = 1}
    /\ pc = "new"
    /\ self = NoEnv
    /\ env_state = NoState
    /\ ret = NoRet
    /\ trace = NoTrace

(* render up to the start of the path loop: the state's flood field gives  *)
(* the path buffer, no path tile is drawn yet, i = 0                       *)
render ==
    /\ call.op = "input"
    /\ \E prob_state \in {get_stats(call.map_shape, call.env_map, NoProbState).prob_state} :
           call' = [op |-> "loop", map_shape |-> call.map_shape,
                    env_map |-> call.env_map,
                    path_coords |-> get_path_coords(prob_state.flood_count,
                                                    max_path_len(call.map_shape)),
                    path_tiles |-> {}, i |-> 0]
    /\ UNCHANGED <<env_params, pc, self, env_state, ret, trace>>

(* draw_path_tile, lines 304-309, taken while cond holds *)
draw_path_tile ==
    /\ call.op = "loop"
    /\ path_cond(call.path_coords, call.i)
    /\ call' = [call EXCEPT
                   !.path_tiles = @ \cup {read_path(call.path_coords, call.i)},
                   !.i = wrap_index(@ + 1)]
    /\ UNCHANGED <<env_params, pc, self, env_state, ret, trace>>

(* the while_loop ends when cond fails *)
path_loop_exit ==
    /\ call.op = "loop"
    /\ ~path_cond(call.path_coords, call.i)
    /\ call' = [call EXCEPT !.op = "drawn"]
    /\ UNCHANGED <<env_params, pc, self, env_state, ret, trace>>

NextRender == render \/ draw_path_tile \/ path_loop_exit

SpecRender == InitRender /\ [][NextRender]_vars /\ WF_vars(NextRender)

(* ---- properties ---- *)
(* a transition made by step_env: reset_env is only taken from "ready" *)
IsStep == pc = "running" /\ ret'.op = "step"

InvalidParams ==
    env_params.problem # BINARY \/ env_params.representation \notin ValidReps

(* C1: every step_env call leaves each cell whose static-mask entry is     *)
(* true with the tile it held before the step, whatever the representation *)
(* proposed, and the cell stays frozen; so after any sequence of steps     *)
(* every frozen cell still holds its reset-time tile.                      *)
C1_FrozenTileInvariance ==
    [][IsStep =>
        \A c \in Cells(self.map_shape) :
            env_state.static_map[c] =>
                /\ env_state'.env_map[c] = env_state.env_map[c]
                /\ env_state'.static_map[c]]_vars

(* a step whose proposed edit touched a frozen cell and was reverted there *)
C1_Witness == ret.op = "step" /\ trace.map_changed /\ trace.restored

(* C2: when the representation's step reports changed = false, step_env    *)
(* returns reward 0, keeps prob_state and does not call get_stats.         *)
C2_NoOpRewardLaw ==
    [][(IsStep /\ ~trace'.map_changed) =>
        /\ ret'.reward = 0
        /\ env_state'.prob_state = env_state.prob_state
        /\ ~trace'.stats_called]_vars

(* an unchanged step taken after a step that earned a nonzero reward *)
C2_Witness ==
    /\ ret.op = "step" /\ ~trace.map_changed
    /\ ret.reward = 0 /\ env_state.prob_state.stats > 0
    /\ env_state.step_idx >= 2

(* C3: the done flag returned by step_env is true exactly when the step    *)
(* index of the state it was called on has reached max_steps - 1, and      *)
(* false for every smaller index, for every representation kind.           *)
C3_TerminationLaw ==
    [][IsStep => (ret'.done <=> env_state.step_idx >= self.max_steps - 1)]_vars

(* the first step of an episode that returns done *)
C3_Witness ==
    ret.op = "step" /\ ret.done /\ env_state.step_idx = self.max_steps

(* C4: in every state reachable from reset, the state's done flag is true  *)
(* exactly when its step_idx has reached max_steps.                        *)
C4_DoneIffBudgetReached ==
    pc = "running" => (env_state.done <=> env_state.step_idx >= self.max_steps)

(* a state past the budget, and so done, reached by stepping a done state *)
C4_Witness ==
    pc = "running" /\ env_state.done /\ env_state.step_idx > self.max_steps

(* C5: every step_env call returns a state whose step_idx is one greater   *)
(* than that of the input state, whatever the action, the change flag and  *)
(* the done flag.                                                          *)
C5_StepIdxIncrements ==
    [][IsStep => env_state'.step_idx = env_state.step_idx + 1]_vars

(* an unchanged step on a state that was already done *)
C5_Witness ==
    /\ ret.op = "step" /\ ~trace.map_changed
    /\ env_state.done /\ env_state.step_idx > self.max_steps

(* C6: step_env returns the static mask of its input state unchanged.      *)
C6_StaticMapConstant ==
    [][IsStep => env_state'.static_map = env_state.static_map]_vars

(* a step that changed the map under a mask with frozen and free cells *)
C6_Witness ==
    /\ ret.op = "step" /\ trace.map_changed /\ ~trace.same_map
    /\ \E c \in Cells(self.map_shape) : env_state.static_map[c]
    /\ \E c \in Cells(self.map_shape) : ~env_state.static_map[c]

(* C7 as stated: if the map stored in the new state equals the map of the  *)
(* input state, get_stats is not invoked, the reward is 0 and the stats    *)
(* carry over.                                                             *)
C7_Original ==
    [][(IsStep /\ env_state'.env_map = env_state.env_map) =>
        /\ ~trace'.stats_called
        /\ ret'.reward = 0
        /\ env_state'.prob_state = env_state.prob_state]_vars

(* C7 amended: if the map stored in the new state equals the map of the    *)
(* input state, the reward is 0 and the stats carry over; get_stats is     *)
(* invoked in such a step only when the representation reported a change   *)
(* that the static overlay reverted.                                       *)
C7_UnchangedMapLaw ==
    [][(IsStep /\ env_state'.env_map = env_state.env_map) =>
        /\ ret'.reward = 0
        /\ env_state'.prob_state = env_state.prob_state
        /\ (trace'.stats_called <=> (trace'.map_changed /\ trace'.restored))]_vars

(* a step whose edit was reverted by the overlay: same map, stats recomputed *)
C7_Witness ==
    /\ ret.op = "step" /\ trace.same_map /\ trace.stats_called
    /\ ret.reward = 0 /\ env_state.prob_state.stats > 0

(* C8: reset_env returns a state with step_idx 0, done false, reward 0, a  *)
(* freshly reset representation state and the stats get_stats computes for *)
(* the returned map with no previous state.                                *)
C8_ResetState ==
    ret.op = "reset" =>
        /\ env_state.step_idx = 0
        /\ env_state.done = FALSE
        /\ env_state.reward = 0
        /\ \E rng \in Keys(self.map_shape) :
               env_state.rep_state = rep_reset(self.rep, env_state.static_map, rng)
        /\ env_state.prob_state = get_stats(self.map_shape, env_state.env_map, NoProbState).prob_state

(* a reset that produced a map with a path and some frozen cell *)
C8_Witness ==
    /\ ret.op = "reset" /\ env_state.prob_state.stats > 0
    /\ \E c \in Cells(self.map_shape) : env_state.static_map[c]

(* C10: with a problem other than BINARY or a representation outside the   *)
(* four kinds the constructor fails: no environment object exists and no   *)
(* reset or step has run.                                                  *)
C10_ConstructionFailsFast ==
    InvalidParams =>
        /\ pc \in {"new", "failed"}
        /\ self = NoEnv
        /\ env_state = NoState
        /\ ret = NoRet

(* the constructor has rejected a known problem with an unknown representation *)
C10_Witness ==
    /\ pc = "failed"
    /\ env_params.problem = BINARY
    /\ env_params.representation \notin ValidReps

DegenerateParams ==
    \/ env_params.map_shape[1] <= 0 \/ env_params.map_shape[2] <= 0
    \/ env_params.act_shape[1] <= 0 \/ env_params.act_shape[2] <= 0
    \/ env_params.rf_shape[1] <= 0 \/ env_params.rf_shape[2] <= 0

(* C11: a configuration with a zero or negative map dimension or a         *)
(* zero-length action or observation window is rejected by the             *)
(* constructor: no environment is ever constructed from it.                *)
C11_DegenerateRejected ==
    DegenerateParams => pc \in {"new", "failed"}

(* C12: in every state returned by reset_env or step_env, env_map and      *)
(* static_map have exactly the configured map_shape.                       *)
C12_MapShape ==
    pc = "running" =>
        /\ DOMAIN env_state.env_map = Cells(self.map_shape)
        /\ DOMAIN env_state.static_map = Cells(self.map_shape)

(* a state returned by a step that changed a map that is not square *)
C12_Witness ==
    /\ ret.op = "step" /\ trace.map_changed /\ ~trace.same_map
    /\ self.map_shape[1] # self.map_shape[2]

(* C13: the reward returned by get_stats is the new statistic minus the    *)
(* statistic of the previous problem state, and 0 when there is no         *)
(* previous state.                                                         *)
C13_RewardIsStatDifference ==
    [][/\ (IsStep /\ trace'.stats_called) =>
              ret'.reward = env_state'.prob_state.stats - env_state.prob_state.stats
       /\ (pc = "ready" /\ ret'.op = "reset") =>
              get_stats(self.map_shape, env_state'.env_map, NoProbState).reward = 0]_vars

(* a step whose edit cut the path, so the reward is negative while the    *)
(* new statistic is not                                                    *)
C13_Witness ==
    /\ ret.op = "step" /\ trace.stats_called
    /\ ret.reward < 0
    /\ env_state.prob_state.stats = 0

(* the cell with row-major index k *)
raster_cell(shape, k) == <<k \div shape[2], k % shape[2]>>

(* C16: under the Narrow representation the cursor visits the cells in     *)
(* row-major order, one per step: after k steps it is on the cell of index *)
(* k mod (R x C) and has completed k div (R x C) scans, so R x C steps     *)
(* (no-op or not) bring it back to (0,0) with the scan count one higher.   *)
C16_NarrowRasterScan ==
    (pc = "running" /\ self.rep = NARROW) =>
        /\ env_state.rep_state.pos =
               raster_cell(self.map_shape, env_state.step_idx % area(self.map_shape))
        /\ env_state.rep_state.n_scans = env_state.step_idx \div area(self.map_shape)

(* a full board scan has just been completed by a no-op step on a 2-D map *)
C16_Witness ==
    /\ pc = "running" /\ self.rep = NARROW
    /\ self.map_shape[1] > 1 /\ self.map_shape[2] > 1
    /\ env_state.step_idx = area(self.map_shape)
    /\ ret.op = "step" /\ ~trace.map_changed
    /\ env_state.rep_state.pos = <<0, 0>> /\ env_state.rep_state.n_scans = 1

(* C17: in every returned state, prob_state holds the statistics of that   *)
(* same state's env_map, the map left by the static-tile overlay.          *)
C17_ProbStateMatchesMap ==
    pc = "running" =>
        env_state.prob_state =
            get_stats(self.map_shape, env_state.env_map, NoProbState).prob_state

(* a step whose candidate map was partly reverted by the overlay and       *)
(* still differs from the old map, so the stats were recomputed            *)
C17_Witness ==
    /\ ret.op = "step" /\ trace.stats_called
    /\ trace.restored /\ ~trace.same_map

(* the cells of the straight segment from a to b, in order: cell i of L *)
corridor_len(a, b) ==
    1 + (IF a[1] = b[1] THEN (IF a[2] < b[2] THEN b[2] - a[2] ELSE a[2] - b[2])
         ELSE (IF a[1] < b[1] THEN b[1] - a[1] ELSE a[1] - b[1]))

corridor_cell(a, b, i) ==
    IF a[1] = b[1]
    THEN <<a[1], IF a[2] <= b[2] THEN a[2] + (i - 1) ELSE a[2] - (i - 1)>>
    ELSE <<IF a[1] <= b[1] THEN a[1] + (i - 1) ELSE a[1] - (i - 1), a[2]>>

(* start and goal lie on one row or column and every cell between them is *)
(* passable                                                                *)
IsCorridor ==
    /\ call.op = "flood"
    /\ (call.start[1] = call.goal[1] \/ call.start[2] = call.goal[2])
    /\ \A i \in 1 .. corridor_len(call.start, call.goal) :
           Passable(call.env_map, corridor_cell(call.start, call.goal, i))

(* C14: on a straight obstacle-free corridor of L cells between start and  *)
(* goal the distance at the goal is L-1 and the path buffer holds exactly  *)
(* L non-sentinel coordinates, the corridor cells from start to goal.      *)
C14_CorridorPath ==
    IsCorridor =>
        LET L == corridor_len(call.start, call.goal)
        IN  /\ call.flood_count[call.goal] = L - 1
            /\ {i \in DOMAIN call.path : call.path[i] # PATH_SENTINEL} = 1 .. L
            /\ \A i \in 1 .. L :
                   call.path[i] = corridor_cell(call.start, call.goal, i)

(* a corridor of three cells on a map that has other cells as well *)
C14_Witness ==
    /\ IsCorridor
    /\ corridor_len(call.start, call.goal) = 3
    /\ area(call.shape) > 3
    /\ call.path[1] = call.start /\ call.path[3] = call.goal

(* a full row or a full column of impassable cells lies strictly between   *)
(* start and goal                                                          *)
IsWalledOff ==
    /\ call.op = "flood"
    /\ Passable(call.env_map, call.start)
    /\ Passable(call.env_map, call.goal)
    /\ \/ \E r \in 0 .. (call.shape[1] - 1) :
              /\ (call.start[1] < r /\ r < call.goal[1])
                     \/ (call.goal[1] < r /\ r < call.start[1])
              /\ \A c \in 0 .. (call.shape[2] - 1) : ~Passable(call.env_map, <<r, c>>)
       \/ \E c \in 0 .. (call.shape[2] - 1) :
              /\ (call.start[2] < c /\ c < call.goal[2])
                     \/ (call.goal[2] < c /\ c < call.start[2])
              /\ \A r \in 0 .. (call.shape[1] - 1) : ~Passable(call.env_map, <<r, c>>)

(* C15: when a complete wall separates start and goal the engine still     *)
(* returns: the distance at the goal is the unreachable sentinel and every *)
(* entry of the path buffer is the sentinel pair.                          *)
C15_WalledOffGoal ==
    IsWalledOff =>
        /\ call.flood_count[call.goal] = UNREACHABLE
        /\ Len(call.path) = max_path_len(call.shape)
        /\ \A i \in DOMAIN call.path : call.path[i] = PATH_SENTINEL

(* a 3x3 map cut in two by a wall, with open cells on both sides *)
C15_Witness ==
    /\ IsWalledOff
    /\ call.shape = <<3, 3>>
    /\ call.flood_count[call.start] = 0
    /\ \E c \in DOMAIN call.flood_count : call.flood_count[c] > 0

(* breadth-first search from the start: the cells at hop count d are the   *)
(* frontier, dist holds the counts settled so far                          *)
RECURSIVE bfs(_, _, _, _, _)
bfs(env_map, frontier, seen, d, dist) ==
    IF frontier = {} THEN dist
    ELSE LET nxt == {n \in UNION {Nbrs(DOMAIN env_map, c) : c \in frontier} :
                        Passable(env_map, n) /\ n \notin seen}
         IN  bfs(env_map, nxt, seen \cup nxt, d + 1,
                 [c \in DOMAIN env_map |-> IF c \in frontier THEN d ELSE dist[c]])

bfs_dist(env_map, start) ==
    LET first == IF Passable(env_map, start) THEN {start} ELSE {}
    IN  bfs(env_map, first, first, 0, [c \in DOMAIN env_map |-> UNREACHABLE])

(* C18: the bounded relaxation ends with the breadth-first distances: the  *)
(* exact hop count on every cell reachable from the start, the sentinel on *)
(* every blocked or unreachable cell, whatever the other regions hold.     *)
C18_FloodIsBFS ==
    call.op = "flood" =>
        /\ call.flood_count = bfs_dist(call.env_map, call.start)
        /\ \A c \in DOMAIN call.env_map :
               ~Passable(call.env_map, c) => call.flood_count[c] = UNREACHABLE

(* a winding map: the goal is four hops away round a wall, and another    *)
(* passable cell cannot be reached at all                                  *)
C18_Witness ==
    /\ call.op = "flood"
    /\ call.flood_count[call.goal] = 4
    /\ corridor_len(call.start, call.goal) = 3
    /\ \E c \in DOMAIN call.flood_count :
           Passable(call.env_map, c) /\ call.flood_count[c] = UNREACHABLE

(* position of neighbour n in the scan order up, down, left, right of c *)
scan_rank(c, n) ==
    IF n = <<c[1] - 1, c[2]>> THEN 1
    ELSE IF n = <<c[1] + 1, c[2]>> THEN 2
    ELSE IF n = <<c[1], c[2] - 1>> THEN 3
    ELSE 4

(* C19: for a reachable goal the path buffer has length max_path_len; its  *)
(* first flood(goal)+1 entries run from the start to the goal through      *)
(* 4-neighbours whose distances rise by one, each cell being the first     *)
(* neighbour in scan order (up, down, left, right) of its successor with   *)
(* that distance; all later entries are the sentinel pair; with start =    *)
(* goal the prefix has length 1.                                           *)
C19_PathIsShortest ==
    (call.op = "flood" /\ call.flood_count[call.goal] # UNREACHABLE) =>
        LET n == call.flood_count[call.goal] + 1
            path == call.path
            fc == call.flood_count
        IN  /\ Len(path) = max_path_len(call.shape)
            /\ n <= Len(path)
            /\ path[1] = call.start /\ path[n] = call.goal
            /\ \A i \in 1 .. n : path[i] \in DOMAIN fc /\ fc[path[i]] = i - 1
            /\ \A i \in 1 .. (n - 1) :
                   /\ path[i] \in Nbrs(DOMAIN fc, path[i + 1])
                   /\ \A m \in Nbrs(DOMAIN fc, path[i + 1]) :
                          fc[m] = fc[path[i + 1]] - 1 =>
                              scan_rank(path[i + 1], path[i]) <= scan_rank(path[i + 1], m)
            /\ \A i \in (n + 1) .. Len(path) : path[i] = PATH_SENTINEL
            /\ (call.start = call.goal => n = 1)

(* a goal with two neighbours one hop closer: the tie rule chose one, and  *)
(* the buffer ends in sentinel entries                                     *)
C19_Witness ==
    /\ call.op = "flood" /\ call.flood_count[call.goal] >= 2
    /\ Cardinality({m \in Nbrs(DOMAIN call.flood_count, call.goal) :
                       call.flood_count[m] = call.flood_count[call.goal] - 1}) = 2
    /\ call.path[Len(call.path)] = PATH_SENTINEL

(* freezie i of the call marks cell c: both of its axis profiles are set *)
freezie_marks(i, c) ==
    call.rng.frz[i].r_tri[c[2]] = 1 /\ call.rng.frz[i].c_tri[c[1]] = 1

bernoulli_marks(c) == call.rng.u[c] < call.static_tile_prob

(* C20: the mask gen_static_tiles produces is the union of the Bernoulli   *)
(* mask and the n_freezies frozen regions: a cell is static iff the        *)
(* Bernoulli draw or at least one freezie marks it; with n_freezies = 0 it *)
(* is the Bernoulli mask, and with static_tile_prob = 0 as well no cell is *)
(* static.                                                                 *)
C20_StaticMaskIsUnion ==
    (call.op = "static" /\ ~call.raised) =>
        /\ DOMAIN call.static_tiles = Cells(call.map_shape)
        /\ \A c \in Cells(call.map_shape) :
               call.static_tiles[c] <=>
                   (bernoulli_marks(c)
                    \/ \E i \in 1 .. call.n_freezies : freezie_marks(i, c))
        /\ call.n_freezies = 0 =>
               call.static_tiles = [c \in Cells(call.map_shape) |-> bernoulli_marks(c)]
        /\ (call.n_freezies = 0 /\ call.static_tile_prob = 0) =>
               \A c \in Cells(call.map_shape) : ~call.static_tiles[c]

(* two freezies and a Bernoulli draw that each freeze a cell the others    *)
(* leave free, and a cell that stays free                                  *)
C20_Witness ==
    /\ call.op = "static" /\ ~call.raised /\ call.n_freezies = 2
    /\ \E c \in Cells(call.map_shape) :
           freezie_marks(1, c) /\ ~freezie_marks(2, c) /\ ~bernoulli_marks(c)
    /\ \E c \in Cells(call.map_shape) :
           freezie_marks(2, c) /\ ~freezie_marks(1, c) /\ ~bernoulli_marks(c)
              /\ call.static_tiles[c]
    /\ \E c \in Cells(call.map_shape) :
           bernoulli_marks(c) /\ ~freezie_marks(1, c) /\ ~freezie_marks(2, c)
    /\ \E c \in Cells(call.map_shape) : ~call.static_tiles[c]

(* candidate i of the call: parent i for i <= evo_pop_size, otherwise the  *)
(* parent i - evo_pop_size with the drawn cells flipped                    *)
evo_candidate(i) ==
    LET inp == call.input
        P == inp.evo_pop_size
    IN  IF i <= P THEN inp.frz_maps[i]
        ELSE [c \in Cells(EvoShape) |->
                 (inp.frz_maps[i - P][c] /\ ~inp.mut_tiles[i - P][c])
                 \/ (~inp.frz_maps[i - P][c] /\ inp.mut_tiles[i - P][c])]

(* C21: apply_evo returns exactly evo_pop_size frozen maps, each one a     *)
(* distinct candidate among the first evo_pop_size parents and their       *)
(* mutants, and no discarded candidate is fitter than a returned one.      *)
C21_EvoKeepsBest ==
    (call.op = "evo" /\ ~call.raised) =>
        LET P == call.input.evo_pop_size
            kept == {call.top_indices[i] : i \in 1 .. P}
        IN  /\ DOMAIN call.frz_map = 1 .. P
            /\ kept \subseteq 1 .. (2 * P)
            /\ Cardinality(kept) = P
            /\ \A i \in 1 .. P :
                   /\ call.frz_map[i] = evo_candidate(call.top_indices[i])
                   /\ call.top_fitness[i] = call.fits[call.top_indices[i]]
            /\ \A i \in kept : \A j \in (1 .. (2 * P)) \ kept :
                   call.fits[i] >= call.fits[j]

(* a generation of two parents in which a mutant replaced its parent: the  *)
(* mutant is strictly fitter and differs from the parent                   *)
C21_Witness ==
    /\ call.op = "evo" /\ ~call.raised
    /\ call.input.evo_pop_size = 2
    /\ Len(call.input.frz_maps) = 3
    /\ \E i \in 1 .. 2 :
           /\ call.top_indices[i] = 3
           /\ 1 \notin {call.top_indices[k] : k \in 1 .. 2}
           /\ call.fits[3] > call.fits[1]
           /\ call.frz_map[i] # call.input.frz_maps[1]

(* C22: an episode that is stepped repeatedly after reset returns done =   *)
(* TRUE after finitely many steps, and every step after one that returned  *)
(* done returns done again.                                                *)
C22_EventuallyAndThenDone ==
    /\ (pc = "running") ~> (ret.op = "step" /\ ret.done)
    /\ [][(IsStep /\ ret.op = "step" /\ ret.done) => ret'.done]_vars

(* a step taken after the budget was reached, which returned done again *)
C22_Witness ==
    /\ ret.op = "step" /\ ret.done
    /\ self.max_steps > 1
    /\ env_state.step_idx > self.max_steps

(* C23: on every state returned by reset_env or step_env, is_terminal of   *)
(* the state equals its done flag, so the discount of a step is 0 exactly  *)
(* when the step returned done.                                            *)
C23_TerminalAgreesWithDone ==
    pc = "running" =>
        /\ is_terminal(self, env_state) = env_state.done
        /\ ret.op = "step" => (ret.discount = 0 <=> ret.done)

(* C24: the observation returned by reset_env and by step_env is get_obs   *)
(* of the env_map, static_map and rep_state of the state returned with it. *)
C24_ObsMatchesState ==
    pc = "running" =>
        ret.obs = get_obs(env_state.env_map, env_state.static_map,
                          env_state.rep_state)

(* a step that moved the cursor, and a reset whose cursor came from the rng *)
C24_Witness ==
    /\ pc = "running"
    /\ \/ /\ ret.op = "step" /\ self.rep = NARROW
          /\ env_state.rep_state.pos # <<0, 0>> /\ trace.map_changed
       \/ /\ ret.op = "reset" /\ self.rep = TURTLE
          /\ env_state.rep_state.pos # <<0, 0>>
    /\ ret.obs.pos = env_state.rep_state.pos

(* C25: the reward and done returned by step_env are the reward and done   *)
(* stored in the state it returns.                                         *)
C25_ReturnedEqualsStored ==
    (pc = "running" /\ ret.op = "step") =>
        /\ env_state.reward = ret.reward
        /\ env_state.done = ret.done

(* a final step that also earned a reward *)
C25_Witness ==
    /\ ret.op = "step" /\ ret.done /\ ret.reward # 0
    /\ env_state.reward = ret.reward /\ env_state.done

(* the entries of the buffer before its first sentinel pair *)
path_prefix(path_coords) ==
    {path_coords[k] : k \in {j \in DOMAIN path_coords :
                                \A h \in 1 .. j : path_coords[h] # PATH_SENTINEL}}

(* C26: the path loop of render_map ends for every path buffer, a buffer   *)
(* without any sentinel entry included, and has then drawn exactly the     *)
(* coordinates before the first sentinel pair.                             *)
C26_PathLoopTerminates ==
    /\ (call.op = "loop") ~> (call.op = "drawn")
    /\ [](call.op = "drawn" => call.path_tiles = path_prefix(call.path_coords))

====
